---- MODULE Spec2Model ----
(***************************************************************************)
(* Monthly airing calendar of the anime schedule frontend.                 *)
(*                                                                         *)
(* Two versions of the MonthlySchedule component live in the repository:   *)
(*   - the current one (src/unnamed/part_004): sequential fetch round,     *)
(*     local date keys, default-selection policy, navigation disabled      *)
(*     while loading.  Specification: Spec.                                *)
(*   - the earlier one (src/frontend/components/MonthlySchedule.tsx):      *)
(*     parallel fetch round (Promise.all), server date keys, navigation    *)
(*     always enabled.  Specification: SpecLegacy.                         *)
(* The grid and week-window planner alone: SpecPlanner.  The round under   *)
(* fair scheduling: SpecFair.  The Home page that hosts the component      *)
(* (src/unnamed/part_001), its chat and its seasonal list: SpecHome.       *)
(*                                                                         *)
(* A JavaScript Date is modelled by the number of its local calendar day   *)
(* (days since 1970-01-01), an instant by its epoch seconds, and a         *)
(* "YYYY-MM-DD" key by the integer YYYYMMDD (the zero padded fixed width   *)
(* fields make the string and the integer determine each other).           *)
(***************************************************************************)
EXTENDS Integers, Sequences, FiniteSets, TLC

\* ------------------------------------------------------------------ bounds

\* Months the user may navigate away from the month of the real-world today.
MaxNav == 2

\* Fetch rounds of the earlier component that may be in flight together.
MaxRounds == 2

\* ------------------------------------------------------- calendar arithmetic

SecondsPerDay == 24 * 60 * 60

\* 7 * 24 * 60 * 60 * 1000 in the source; the model counts seconds.
msPerWeek == 7 * 24 * 60 * 60

\* Days since 1970-01-01 of the proleptic Gregorian date y-m-d (m in 1..12).
DaysFromCivil(y, m, d) ==
    LET yy  == IF m <= 2 THEN y - 1 ELSE y
        era == yy \div 400
        yoe == yy - era * 400
        mp  == (m + 9) % 12
        doy == (153 * mp + 2) \div 5 + d - 1
        doe == yoe * 365 + yoe \div 4 - yoe \div 100 + doy
    IN  era * 146097 + doe - 719468

\* The civil date [y, m (0-based, as Date.getMonth), d] of day number z.
CivilFromDays(z) ==
    LET zz  == z + 719468
        era == zz \div 146097
        doe == zz - era * 146097
        yoe == (doe - doe \div 1460 + doe \div 36524 - doe \div 146096) \div 365
        doy == doe - (365 * yoe + yoe \div 4 - yoe \div 100)
        mp  == (5 * doy + 2) \div 153
        d   == doy - (153 * mp + 2) \div 5 + 1
        m   == IF mp < 10 THEN mp + 3 ELSE mp - 9
        y   == yoe + era * 400 + (IF m <= 2 THEN 1 ELSE 0)
    IN  [y |-> y, m |-> m - 1, d |-> d]

\* The civil dates of the days the model can touch, tabulated once.
Calendar ==
    [z \in DaysFromCivil(2024, 1, 1)..DaysFromCivil(2026, 12, 31) |-> CivilFromDays(z)]

\* Date.prototype.getFullYear / getMonth / getDate / getDay on a local date.
getFullYear(date) == Calendar[date].y
getMonth(date) == Calendar[date].m
getDate(date) == Calendar[date].d
getDay(date) == (date + 4) % 7

\* new Date(year, monthIndex, day): out-of-range months and days roll over.
NewDate(year, monthIndex, day) ==
    DaysFromCivil(year + monthIndex \div 12, (monthIndex % 12) + 1, 1) + day - 1

\* Date.prototype.getTime of the local midnight of a date, in seconds.
getTime(date, tzHours) == date * SecondsPerDay - tzHours * 3600

\* new Date(epochSeconds * 1000) read through the local getters: the local
\* calendar day of an instant.
LocalDay(epochSeconds, tzHours) == (epochSeconds + tzHours * 3600) \div SecondsPerDay

\* The UTC calendar day of an instant (Date.prototype.toISOString).
UtcDay(epochSeconds) == epochSeconds \div SecondsPerDay

\* Math.round(a / b) for b > 0: halves round towards plus infinity.
MathRound(a, b) == (2 * a + b) \div (2 * b)

\* `${year}-${month}-${day}` with month and day padded to two digits.
formatLocalDateKey(date) ==
    getFullYear(date) * 10000 + (getMonth(date) + 1) * 100 + getDate(date)

\* ---------------------------------------------------------- week-window planner

\* calendarDays: the grid of the month of currentDate, Sunday to Saturday rows.
firstDay(curDate) == NewDate(getFullYear(curDate), getMonth(curDate), 1)
lastDay(curDate) == NewDate(getFullYear(curDate), getMonth(curDate) + 1, 0)

\* Mutant: the rows start on Monday.
startDateMonday(curDate) == firstDay(curDate) - ((getDay(firstDay(curDate)) + 6) % 7)

startDate(curDate) == firstDay(curDate) - getDay(firstDay(curDate))

\* Mutant: the count of days after lastDay is taken from 7, not from 6.
endDateOffByOne(curDate) == lastDay(curDate) + (7 - getDay(lastDay(curDate)))

endDate(curDate) == lastDay(curDate) + (6 - getDay(lastDay(curDate)))

\* while (current <= endDate) { days.push(new Date(current));
\*                              current.setDate(current.getDate() + 1) }
RECURSIVE pushDays(_, _)
pushDays(current, end) ==
    IF current <= end
    THEN <<current>> \o pushDays(NewDate(getFullYear(current), getMonth(current),
                                         getDate(current) + 1), end)
    ELSE << >>

\* The dates whose month the model can display (their grids lie in Calendar).
GridDates == DaysFromCivil(2024, 2, 1)..DaysFromCivil(2026, 11, 30)

\* useMemo(..., [currentDate]): the grid of each month, computed once.
CalendarGrid == [curDate \in GridDates |-> pushDays(startDate(curDate), endDate(curDate))]

calendarDays(curDate) == CalendarGrid[curDate]

\* Mutant: Sunday is not treated as the last day of its week.
daysToMondaySundayFirst(dayOfWeek) == 1 - dayOfWeek

\* dayOfWeek === 0 ? -6 : 1 - dayOfWeek
daysToMonday(dayOfWeek) == IF dayOfWeek = 0 THEN -6 ELSE 1 - dayOfWeek

\* The Monday of the real-world current week, from the viewer's local today.
currentMonday(today) == today + daysToMonday(getDay(today))

\* The Monday the component derives from the first grid day.
firstWeekMonday(curDate) ==
    LET firstCalendarDay == calendarDays(curDate)[1]
    IN  firstCalendarDay + daysToMonday(getDay(firstCalendarDay))

startOffset(curDate, today, tzHours) ==
    MathRound(getTime(firstWeekMonday(curDate), tzHours) - getTime(currentMonday(today), tzHours),
              msPerWeek)

\* for (let i = 0; i < 6; i++) weeks.push(startOffset + i)
WeeksPerRound == 6

weeksToFetch(curDate, today, tzHours) ==
    [i \in 1..WeeksPerRound |-> startOffset(curDate, today, tzHours) + i - 1]

\* ------------------------------------------------------------ the remote feed

\* An epoch instant, in seconds, from its UTC date and time.
Instant(y, m, d, hh, mi) == DaysFromCivil(y, m, d) * SecondsPerDay + hh * 3600 + mi * 60

\* ScheduleItem as the feed returns it: the server fills airing_date with the
\* date key of the instant in its own (UTC) calendar.
ServerItem(id, at) ==
    [schedule_id |-> id, airing_at |-> at, airing_date |-> formatLocalDateKey(UtcDay(at))]

\* The airing_schedule rows the feed serves in the model.
Catalogue ==
    { ServerItem(1, Instant(2025, 3, 3, 10, 0)),
      ServerItem(5, Instant(2025, 3, 3, 8, 0)),
      ServerItem(2, Instant(2025, 3, 31, 2, 0)),
      ServerItem(3, Instant(2025, 1, 15, 7, 30)),
      ServerItem(4, Instant(2025, 4, 12, 12, 0)) }

\* The real-world clock readings and viewer UTC offsets (hours) of the model.
Nows == { Instant(2025, 3, 10, 12, 0), Instant(2025, 3, 31, 3, 0) }
TimeZones == { -8, 9 }

\* A set of items as the sequence in ascending airing_at (the feed's buckets
\* run MONDAY..SUNDAY, each in airing order).
RECURSIVE InAiringOrder(_)
InAiringOrder(S) ==
    IF S = {} THEN << >>
    ELSE LET first == CHOOSE x \in S : \A y \in S : x.airing_at <= y.airing_at
         IN  <<first>> \o InAiringOrder(S \ {first})

\* The Monday-to-Sunday week (UTC calendar, relative to the server's clock)
\* that the feed serves for weeks_offset = offset.
ServerWeekStart(offset, nowS) ==
    LET d == UtcDay(nowS) IN d + daysToMonday(getDay(d)) + 7 * offset

WeekItems(offset, nowS, lastIncl) ==
    { it \in Catalogue :
        /\ UtcDay(it.airing_at) >= ServerWeekStart(offset, nowS)
        /\ UtcDay(it.airing_at) <= ServerWeekStart(offset, nowS) + lastIncl }

\* What `await fetch(...)` followed by `await res.json()` can produce:
\*   kind "error": the network failed or the body was not JSON (a throw);
\*   kind "json":  a parsed body, with its `schedule` flattened in
\*                 Object.entries order.
\* `ok` is the `res.ok` of the response (a 2xx status); fetch() resolves for
\* every status, so a non-2xx answer with a JSON body is of kind "json".
\* The feed is a black box: it answers with the entries of its week, and it may
\* also include the entries of the day that follows week_end (so that one entry
\* is served by two consecutive weeks).  A non-2xx answer may carry any body:
\* here one that holds the `schedule` of the week that was asked for.
FetchError == [kind |-> "error", ok |-> FALSE, hasSchedule |-> FALSE, items |-> << >>]
WeekPayload(S) ==
    [kind |-> "json", ok |-> TRUE, hasSchedule |-> TRUE, items |-> InAiringOrder(S)]
StatusPayload(S) ==
    [kind |-> "json", ok |-> FALSE, hasSchedule |-> TRUE, items |-> InAiringOrder(S)]

ServerResponses(offset, nowS) ==
    { FetchError,
      WeekPayload(WeekItems(offset, nowS, 6)),
      WeekPayload(WeekItems(offset, nowS, 7)) }
    \cup { StatusPayload(S) : S \in { WeekItems(offset, nowS, 6) } \ { {} } }

\* ------------------------------------------------------------------ Map helpers

\* selectedDate === null
NoKey == 0

EmptyMap == << >>
MapHas(map, key) == key \in DOMAIN map
\* map.get(key) || []
MapGetOrEmpty(map, key) == IF key \in DOMAIN map THEN map[key] ELSE << >>
\* Mutant: the list of the key is replaced by the new entry alone.
MapPushReplacing(map, key, item) ==
    [k \in DOMAIN map \cup {key} |-> IF k = key THEN <<item>> ELSE map[k]]

\* if (!map.has(key)) map.set(key, []); map.get(key).push(item)
MapPush(map, key, item) ==
    IF key \in DOMAIN map
    THEN [map EXCEPT ![key] = Append(@, item)]
    ELSE [k \in DOMAIN map \cup {key} |-> IF k = key THEN <<item>> ELSE map[k]]

\* ------------------------------------------------------------------ state

VARIABLES
    now,               \* the real-world clock (epoch seconds), read by new Date()
    tz,                \* the viewer's UTC offset in hours
    currentDate,       \* useState: a date of the displayed month
    selectedDate,      \* useState: the active DateKey, or NoKey
    selectedAnime,     \* useState: the active entry list
    scheduleData,      \* useState: the index, DateKey -> entries
    loading,           \* useState
    loadingProgress,   \* useState
    pc,                \* where the sequential round stands: "idle", "fetch", "delay",
                       \* or "hung" (its pending fetch never settles)
    roundDate,         \* currentDate as captured by the running loadMonthSchedule
    roundSelected,     \* selectedDate as captured by the running loadMonthSchedule
    newScheduleData,   \* the round's local Map
    completedWeeks,    \* the round's local counter
    results,           \* history: what each fetch attempt of the round produced
    requested,         \* history: the offsets the round has called fetch() for
    rounds,            \* the fetch rounds in flight in the earlier component
    tab,               \* Home useState: "browse", "schedule" or "chat"
    messages,          \* Home useState: the chat transcript
    pageLoading,       \* Home useState `loading`, shared by loadAnimeData and sendQuery
    apiStatus,         \* Home useState: "checking", "online" or "offline"
    seasonalLoads,     \* the /anime/seasonal requests in flight
    queries            \* the /query requests in flight (the numbers of their queries)

vars == <<now, tz, currentDate, selectedDate, selectedAnime, scheduleData, loading,
          loadingProgress, pc, roundDate, roundSelected, newScheduleData,
          completedWeeks, results, requested, rounds,
          tab, messages, pageLoading, apiStatus, seasonalLoads, queries>>

clock == <<now, tz>>
roundVars == <<pc, roundDate, roundSelected, newScheduleData, completedWeeks, results,
               requested>>
home == <<tab, messages, pageLoading, apiStatus, seasonalLoads, queries>>

\* The Home page while its schedule tab is open and nothing else is going on:
\* the seasonal list has loaded and the health check has answered.
scheduleTabOpen ==
    /\ tab = "schedule"
    /\ messages = << >>
    /\ pageLoading = FALSE
    /\ apiStatus = "online"
    /\ seasonalLoads = 0
    /\ queries = {}

\* new Date() through the local getters.
Today == LocalDay(now, tz)

\* ---------------------------------------------------------------- aggregator

\* The key the current component files an item under (part_004: 149-150).
localDateKey(item, tzHours) == formatLocalDateKey(LocalDay(item.airing_at, tzHours))

\* items.forEach(item => newScheduleData.get(localDateKey).push({...item, airing_date}))
RECURSIVE pushItems(_, _, _)
pushItems(map, items, tzHours) ==
    IF items = << >> THEN map
    ELSE LET item == Head(items)
             key  == localDateKey(item, tzHours)
         IN  pushItems(MapPush(map, key, [item EXCEPT !.airing_date = key]),
                       Tail(items), tzHours)

\* Mutant: a failed attempt discards what the round has aggregated so far.
processWeekAborting(map, weekData, tzHours) ==
    IF weekData.kind = "json" /\ weekData.hasSchedule
    THEN pushItems(map, weekData.items, tzHours)
    ELSE EmptyMap

\* The body of the try block for one offset: a throw leaves the Map as it is.
processWeek(map, weekData, tzHours) ==
    IF weekData.kind = "json" /\ weekData.hasSchedule
    THEN pushItems(map, weekData.items, tzHours)
    ELSE map

\* Mutant: the progress counts the attempts still to come.
progressOfRemaining(completed) == MathRound((WeeksPerRound - completed) * 100, WeeksPerRound)

\* Math.round((completedWeeks / weeksToFetch.length) * 100)
progressOf(completed) == MathRound(completed * 100, WeeksPerRound)

\* ------------------------------------------------------ default-selection policy

sameMonth(d, curDate) ==
    getMonth(d) = getMonth(curDate) /\ getFullYear(d) = getFullYear(curDate)

\* Mutant: the negation of has() is lost.
needsDefaultIfPresent(selected, newData) == selected = NoKey \/ MapHas(newData, selected)

\* Mutant: only a null selection is replaced.
needsDefaultIfNull(selected, newData) == selected = NoKey

\* if (!selectedDate || !newScheduleData.has(selectedDate))
needsDefault(selected, newData) == selected = NoKey \/ ~MapHas(newData, selected)

\* Mutant: the scan runs over the whole grid, overhang days included.
monthDaysWholeGrid(curDate) == calendarDays(curDate)

monthDays(curDate) == SelectSeq(calendarDays(curDate), LAMBDA d : sameMonth(d, curDate))

daysWithAnime(newData, curDate) ==
    SelectSeq(monthDays(curDate),
              LAMBDA d : /\ MapHas(newData, formatLocalDateKey(d))
                         /\ Len(newData[formatLocalDateKey(d)]) > 0)

\* Mutant: the scan for a day with entries comes before the test for today.
defaultKeyScanFirst(newData, curDate, today) ==
    LET found == daysWithAnime(newData, curDate)
    IN  IF found # << >>
        THEN formatLocalDateKey(found[1])
        ELSE IF sameMonth(today, curDate)
             THEN formatLocalDateKey(today)
             ELSE formatLocalDateKey(firstDay(curDate))

\* Mutant: the fallback is the first cell of the grid, not the first of the month.
defaultKeyGridStart(newData, curDate, today) ==
    IF sameMonth(today, curDate)
    THEN formatLocalDateKey(today)
    ELSE LET found == daysWithAnime(newData, curDate)
         IN  IF found # << >>
             THEN formatLocalDateKey(found[1])
             ELSE formatLocalDateKey(calendarDays(curDate)[1])

\* The key the policy selects when the captured selection is not kept.
defaultKey(newData, curDate, today) ==
    IF sameMonth(today, curDate)
    THEN formatLocalDateKey(today)
    ELSE LET found == daysWithAnime(newData, curDate)
         IN  IF found # << >>
             THEN formatLocalDateKey(found[1])
             ELSE formatLocalDateKey(firstDay(curDate))

\* The entry list set together with it.
defaultAnime(newData, curDate, today) ==
    IF sameMonth(today, curDate)
    THEN MapGetOrEmpty(newData, formatLocalDateKey(today))
    ELSE LET found == daysWithAnime(newData, curDate)
         IN  IF found # << >>
             THEN MapGetOrEmpty(newData, formatLocalDateKey(found[1]))
             ELSE << >>

\* Mutant: the effect is missing, the list is left as the handlers set it.
syncSelectedAnimeNever(data, selected, anime) == anime

\* useEffect(..., [scheduleData, selectedDate]): the entry list follows the
\* selection once the index is non-empty.
syncSelectedAnime(data, selected, anime) ==
    IF selected # NoKey /\ Cardinality(DOMAIN data) > 0
    THEN MapGetOrEmpty(data, selected)
    ELSE anime

\* ------------------------------------------------------- the selected-day panel

\* Mutant: the comparator's operands are swapped.
compareDescending(a, b) == b.airing_at - a.airing_at

\* (a, b) => a.airing_at - b.airing_at
compareByAiringAt(a, b) == a.airing_at - b.airing_at

\* Array.prototype.sort with that comparator: a stable sort, here by insertion.
RECURSIVE insertInOrder(_, _)
insertInOrder(sorted, item) ==
    IF sorted = << >> THEN <<item>>
    ELSE IF compareByAiringAt(sorted[Len(sorted)], item) <= 0
         THEN Append(sorted, item)
         ELSE Append(insertInOrder(SubSeq(sorted, 1, Len(sorted) - 1), item),
                     sorted[Len(sorted)])

RECURSIVE sortByAiringAt(_)
sortByAiringAt(list) ==
    IF list = << >> THEN << >>
    ELSE insertInOrder(sortByAiringAt(SubSeq(list, 1, Len(list) - 1)), list[Len(list)])

\* The cards of the selected-day panel: selectedAnime.sort(...).map(...).  The
\* sort also reorders the array it is given; the model keeps the lists of the
\* state in order of arrival and sorts where the panel reads them.
panelEntries(list) == sortByAiringAt(list)

\* ------------------------------------------- the current component (part_004)

\* Mutant: the round goes on filling the Map that is the index.
StartRoundMerging(date, selected) ==
    /\ loading' = TRUE
    /\ loadingProgress' = 0
    /\ pc' = "fetch"
    /\ roundDate' = date
    /\ roundSelected' = selected
    /\ newScheduleData' = scheduleData
    /\ completedWeeks' = 0
    /\ results' = << >>
    /\ requested' = <<weeksToFetch(date, Today, tz)[1]>>

\* The synchronous head of loadMonthSchedule, run by useEffect([weeksToFetch]):
\* setLoading(true), setLoadingProgress(0), a new Map, and the first fetch issued.
StartRound(date, selected) ==
    /\ loading' = TRUE
    /\ loadingProgress' = 0
    /\ pc' = "fetch"
    /\ roundDate' = date
    /\ roundSelected' = selected
    /\ newScheduleData' = EmptyMap
    /\ completedWeeks' = 0
    /\ results' = << >>
    /\ requested' = <<weeksToFetch(date, Today, tz)[1]>>

\* The component as mounted: currentDate = initialDate || new Date(); selectedDate
\* is null (the Home page passes null) or todayKey (no prop given).
Init ==
    /\ now \in Nows
    /\ tz \in TimeZones
    /\ currentDate = LocalDay(now, tz)
    /\ selectedDate \in {NoKey, formatLocalDateKey(LocalDay(now, tz))}
    /\ selectedAnime = << >>
    /\ scheduleData = EmptyMap
    /\ loading = TRUE
    /\ loadingProgress = 0
    /\ pc = "fetch"
    /\ roundDate = currentDate
    /\ roundSelected = selectedDate
    /\ newScheduleData = EmptyMap
    /\ completedWeeks = 0
    /\ results = << >>
    /\ requested = <<weeksToFetch(currentDate, Today, tz)[1]>>
    /\ rounds = << >>
    /\ scheduleTabOpen

\* The offset of the iteration the loop stands in.
currentOffset == weeksToFetch(roundDate, Today, tz)[completedWeeks + 1]

\* Mutant: every settled attempt publishes the Map built so far.
FetchSettlesPublishing ==
    /\ pc = "fetch"
    /\ completedWeeks + 1 < WeeksPerRound
    /\ \E offset \in {requested[Len(requested)]} :
         \E weekData \in ServerResponses(offset, now) :
             /\ newScheduleData' = processWeek(newScheduleData, weekData, tz)
             /\ results' = Append(results, weekData)
    /\ scheduleData' = newScheduleData'
    /\ completedWeeks' = completedWeeks + 1
    /\ loadingProgress' = progressOf(completedWeeks + 1)
    /\ pc' = "delay"
    /\ UNCHANGED <<clock, home, currentDate, selectedDate, selectedAnime,
                   loading, roundDate, roundSelected, requested, rounds>>

\* One of the first five fetch attempts settles: its entries are merged, the
\* progress is published and the 100 ms pause begins.
FetchSettles ==
    /\ pc = "fetch"
    /\ completedWeeks + 1 < WeeksPerRound
    /\ \E offset \in {requested[Len(requested)]} :
         \E weekData \in ServerResponses(offset, now) :
             /\ newScheduleData' = processWeek(newScheduleData, weekData, tz)
             /\ results' = Append(results, weekData)
    /\ completedWeeks' = completedWeeks + 1
    /\ loadingProgress' = progressOf(completedWeeks + 1)
    /\ pc' = "delay"
    /\ UNCHANGED <<clock, home, currentDate, selectedDate, selectedAnime, scheduleData,
                   loading, roundDate, roundSelected, requested, rounds>>

\* The pending `await fetch(...)` never settles: the call carries no signal and
\* no timeout, so nothing resumes loadMonthSchedule; the loop, the commit and
\* the finally block all lie behind this await.
FetchHangs ==
    /\ pc = "fetch"
    /\ pc' = "hung"
    /\ UNCHANGED <<clock, home, currentDate, selectedDate, selectedAnime, scheduleData,
                   loading, loadingProgress, roundDate, roundSelected,
                   newScheduleData, completedWeeks, results, requested, rounds>>

\* Mutant: the pause between two fetches never ends.
DelayNeverElapses ==
    /\ pc = "delay"
    /\ pc' = "delay"
    /\ UNCHANGED <<clock, home, currentDate, selectedDate, selectedAnime, scheduleData,
                   loading, loadingProgress, roundDate, roundSelected,
                   newScheduleData, completedWeeks, results, requested, rounds>>

\* Mutant: after the pause a failed offset is requested again.
DelayElapsesRetrying ==
    /\ pc = "delay"
    /\ pc' = "fetch"
    /\ UNCHANGED <<clock, home, currentDate, selectedDate, selectedAnime, scheduleData,
                   loading, loadingProgress, roundDate, roundSelected,
                   newScheduleData, completedWeeks, results, rounds>>
    /\ requested' = Append(requested, IF results[Len(results)].kind = "error"
                                      THEN requested[Len(requested)]
                                      ELSE currentOffset)

\* await new Promise(resolve => setTimeout(resolve, 100)), then the next fetch.
DelayElapses ==
    /\ pc = "delay"
    /\ pc' = "fetch"
    /\ UNCHANGED <<clock, home, currentDate, selectedDate, selectedAnime, scheduleData,
                   loading, loadingProgress, roundDate, roundSelected,
                   newScheduleData, completedWeeks, results, rounds>>
    /\ requested' = Append(requested, currentOffset)

\* The last fetch attempt settles: the rest of loadMonthSchedule runs without
\* another await: setScheduleData, the selection policy, the finally block, and
\* the selectedAnime effect of the render that follows.
LastFetchSettles ==
    /\ pc = "fetch"
    /\ completedWeeks + 1 = WeeksPerRound
    /\ \E offset \in {requested[Len(requested)]} :
         \E weekData \in ServerResponses(offset, now) :
           \E newData \in {processWeek(newScheduleData, weekData, tz)} :
             LET byDefault == needsDefault(roundSelected, newData)
                 key == IF byDefault THEN defaultKey(newData, roundDate, Today)
                        ELSE selectedDate
                 anime == IF byDefault THEN defaultAnime(newData, roundDate, Today)
                          ELSE selectedAnime
             IN  /\ newScheduleData' = newData
                 /\ results' = Append(results, weekData)
                 /\ scheduleData' = newData
                 /\ selectedDate' = key
                 /\ selectedAnime' = syncSelectedAnime(newData, key, anime)
    /\ completedWeeks' = completedWeeks + 1
    /\ loading' = FALSE
    /\ loadingProgress' = 100
    /\ pc' = "idle"
    /\ UNCHANGED <<clock, home, currentDate, roundDate, roundSelected, requested, rounds>>

\* The months between a date's month and the month of today.
monthIndex(date) == getFullYear(date) * 12 + getMonth(date)
withinNav(date) ==
    /\ monthIndex(date) - monthIndex(Today) <= MaxNav
    /\ monthIndex(Today) - monthIndex(date) <= MaxNav

\* newDate.setMonth(newDate.getMonth() + direction)
setMonth(date, direction) ==
    NewDate(getFullYear(date), getMonth(date) + direction, getDate(date))

\* Prev / Next (disabled while loading): the month moves, the selection is
\* cleared, and the weeksToFetch effect starts a round.
navigateMonth(direction) ==
    /\ ~loading
    /\ withinNav(setMonth(currentDate, direction))
    /\ currentDate' = setMonth(currentDate, direction)
    /\ selectedDate' = NoKey
    /\ selectedAnime' = << >>
    /\ StartRound(currentDate', NoKey)
    /\ UNCHANGED <<clock, home, scheduleData, rounds>>

\* Mutant: Today clears the selection, as the earlier component does.
goToTodayClearing ==
    /\ ~loading
    /\ currentDate' = Today
    /\ selectedDate' = NoKey
    /\ selectedAnime' = << >>
    /\ StartRound(currentDate', selectedDate')
    /\ UNCHANGED <<clock, home, scheduleData, rounds>>

\* Today (disabled while loading).
goToToday ==
    /\ ~loading
    /\ currentDate' = Today
    /\ selectedDate' = formatLocalDateKey(Today)
    /\ selectedAnime' = syncSelectedAnime(scheduleData, selectedDate',
                                          MapGetOrEmpty(scheduleData, selectedDate'))
    /\ StartRound(currentDate', selectedDate')
    /\ UNCHANGED <<clock, home, scheduleData, rounds>>

\* The grid days the user clicks in the model: the first cell and the cells
\* that show entries.
ClickDays(curDate, data) ==
    LET days == calendarDays(curDate)
    IN  { days[i] : i \in { j \in 1..Len(days) :
                             j = 1 \/ MapHas(data, formatLocalDateKey(days[j])) } }

\* A click on a grid cell (the grid is rendered only when not loading).
handleDateClick(date) ==
    /\ ~loading
    /\ selectedDate' = formatLocalDateKey(date)
    /\ selectedAnime' = syncSelectedAnime(scheduleData, selectedDate',
                                          MapGetOrEmpty(scheduleData, selectedDate'))
    /\ UNCHANGED <<clock, home, currentDate, scheduleData, loading, loadingProgress,
                   roundVars, rounds>>

\* A click on the backdrop of the selected-day panel: setSelectedDate(null).
dismissPanel ==
    /\ selectedDate # NoKey
    /\ selectedDate' = NoKey
    /\ UNCHANGED <<clock, home, currentDate, selectedAnime, scheduleData, loading,
                   loadingProgress, roundVars, rounds>>

\* The Home page leaves the schedule tab and returns: the component is mounted
\* anew from the state Home saved through onStateChange; a round of the old
\* instance updates nothing that is rendered.
remount ==
    /\ scheduleData' = EmptyMap
    /\ selectedAnime' = << >>
    /\ StartRound(currentDate, selectedDate)
    /\ UNCHANGED <<clock, home, currentDate, selectedDate, rounds>>

Next ==
    \/ FetchSettles
    \/ FetchHangs
    \/ DelayElapses
    \/ LastFetchSettles
    \/ \E direction \in {-1, 1} : navigateMonth(direction)
    \/ goToToday
    \/ \E date \in ClickDays(currentDate, scheduleData) : handleDateClick(date)
    \/ dismissPanel
    \/ remount

Spec == Init /\ [][Next]_vars

\* The component of one mount whose fetches all settle: the steps of Next
\* without a fetch that hangs and without a new mount.
NextSettling ==
    \/ FetchSettles
    \/ DelayElapses
    \/ LastFetchSettles
    \/ \E direction \in {-1, 1} : navigateMonth(direction)
    \/ goToToday
    \/ \E date \in ClickDays(currentDate, scheduleData) : handleDateClick(date)
    \/ dismissPanel

\* The event loop runs every continuation that is ready: a settled fetch resumes
\* loadMonthSchedule and the 100 ms timer fires.
SpecFair ==
    /\ Init
    /\ [][NextSettling]_vars
    /\ WF_vars(FetchSettles)
    /\ WF_vars(DelayElapses)
    /\ WF_vars(LastFetchSettles)

\* ------------------------------------------- the planner, month by month

\* The clock readings of the planner specification: a noon of every weekday of
\* one week, and an evening that two viewers see on different days.
PlannerNows ==
    { Instant(2025, 3, d, 12, 0) : d \in 24..30 } \cup { Instant(2025, 3, 16, 20, 0) }

\* The initialDate props of the planner specification: a day of every month
\* from February 2024 to October 2026.
PlannerDates ==
    { NewDate(2024, m, 1) : m \in 1..33 } \cup { NewDate(2024, m, 28) : m \in 1..33 }

\* <MonthlySchedule initialDate=... initialSelectedDate=... />: the useState
\* initialisers, then the mount effect that starts the first round.
mount(initialDate, initialSelectedDate) ==
    /\ currentDate' = initialDate
    /\ selectedDate' = initialSelectedDate
    /\ selectedAnime' = << >>
    /\ scheduleData' = EmptyMap
    /\ StartRound(currentDate', selectedDate')
    /\ UNCHANGED <<clock, home, rounds>>

\* The component mounted without props.
InitPlanner ==
    /\ now \in PlannerNows
    /\ tz \in TimeZones
    /\ currentDate = LocalDay(now, tz)
    /\ selectedDate = formatLocalDateKey(LocalDay(now, tz))
    /\ selectedAnime = << >>
    /\ scheduleData = EmptyMap
    /\ loading = TRUE
    /\ loadingProgress = 0
    /\ pc = "fetch"
    /\ roundDate = currentDate
    /\ roundSelected = selectedDate
    /\ newScheduleData = EmptyMap
    /\ completedWeeks = 0
    /\ results = << >>
    /\ requested = <<weeksToFetch(currentDate, Today, tz)[1]>>
    /\ rounds = << >>
    /\ scheduleTabOpen

\* The component is mounted for a month: calendarDays and weeksToFetch are
\* computed from currentDate and the clock alone.
NextPlanner ==
    \E initialDate \in PlannerDates :
        \E initialSelectedDate \in {NoKey, formatLocalDateKey(initialDate)} :
            mount(initialDate, initialSelectedDate)

SpecPlanner == InitPlanner /\ [][NextPlanner]_vars

\* --------------- the earlier component (frontend/components/MonthlySchedule.tsx)

\* date.toISOString().split('T')[0]: the UTC calendar day of the local midnight.
formatDateKey(date, tzHours) == formatLocalDateKey(UtcDay(getTime(date, tzHours)))

\* new Date().toISOString().split('T')[0]
todayKeyISO(nowS) == formatLocalDateKey(UtcDay(nowS))

\* items.forEach(item => newScheduleData.get(item.airing_date).push(item))
RECURSIVE pushItemsByServerDate(_, _)
pushItemsByServerDate(map, items) ==
    IF items = << >> THEN map
    ELSE pushItemsByServerDate(MapPush(map, Head(items).airing_date, Head(items)),
                               Tail(items))

\* One step of weekResults.forEach(weekData => { if (!weekData?.schedule) return;
\* ... }): `.catch(() => null)` has turned a failed attempt into null.
processWeekResult(map, weekData) ==
    IF weekData.kind = "json" /\ weekData.hasSchedule
    THEN pushItemsByServerDate(map, weekData.items)
    ELSE map

\* A round in flight: the month it was started for, how many of its attempts
\* have settled, and its local Map.  Promise.all hands the results over in the
\* order of weekPromises whatever the order of arrival, and forEach folds them
\* into the Map in that order; nothing reads the Map before the round commits,
\* so the model settles the attempts of one round in array order and folds each
\* result as it arrives.  Attempts of different rounds interleave freely.
\* History: latest marks the round that was started last.
LegacyRound(date) ==
    [date |-> date, settled |-> 0, newScheduleData |-> EmptyMap, latest |-> TRUE]

\* The component as mounted, its mount effect run: loading is true and the six
\* fetches of the first round are in flight.
InitLegacy ==
    /\ now \in Nows
    /\ tz \in TimeZones
    /\ currentDate = LocalDay(now, tz)
    /\ selectedDate = todayKeyISO(now)
    /\ selectedAnime = << >>
    /\ scheduleData = EmptyMap
    /\ loading = TRUE
    /\ loadingProgress = 0
    /\ pc = "idle"
    /\ roundDate = currentDate
    /\ roundSelected = NoKey
    /\ newScheduleData = EmptyMap
    /\ completedWeeks = 0
    /\ results = << >>
    /\ requested = << >>
    /\ rounds = << LegacyRound(currentDate) >>
    /\ scheduleTabOpen

\* The offset of the next attempt of round r to settle.
legacyOffset(r) ==
    weeksToFetch(rounds[r].date, Today, tz)[rounds[r].settled + 1]

\* One of the six parallel attempts of a round settles while others are pending.
LegacyFetchSettles(r) ==
    /\ rounds[r].settled + 1 < WeeksPerRound
    /\ \E weekData \in ServerResponses(legacyOffset(r), now) :
         rounds' = [rounds EXCEPT ![r].settled = @ + 1,
                                  ![r].newScheduleData = processWeekResult(@, weekData)]
    /\ UNCHANGED <<clock, home, currentDate, selectedDate, selectedAnime, scheduleData,
                   loading, loadingProgress, roundVars>>

\* The last pending attempt of a round settles: Promise.all resolves and the
\* rest of loadMonthSchedule runs: a Map built from the six results replaces
\* the index, loading becomes false, the selectedAnime effect follows.
\* History: roundDate is the month of the round started last, and
\* newScheduleData its Map once it has settled.
LegacyRoundSettles(r) ==
    /\ rounds[r].settled + 1 = WeeksPerRound
    /\ \E weekData \in ServerResponses(legacyOffset(r), now) :
         LET newData == processWeekResult(rounds[r].newScheduleData, weekData)
         IN  /\ scheduleData' = newData
             /\ selectedAnime' = syncSelectedAnime(newData, selectedDate, selectedAnime)
             /\ newScheduleData' = IF rounds[r].latest THEN newData ELSE newScheduleData
    /\ loading' = FALSE
    /\ rounds' = [i \in 1..(Len(rounds) - 1) |->
                    IF i < r THEN rounds[i] ELSE rounds[i + 1]]
    /\ UNCHANGED <<clock, home, currentDate, selectedDate, loadingProgress, pc, roundDate,
                   roundSelected, completedWeeks, results, requested>>

\* useEffect([weeksToFetch]) -> loadMonthSchedule: setLoading(true) and six
\* fetches issued at once.
LegacyStartRound(date) ==
    /\ Len(rounds) < MaxRounds
    /\ loading' = TRUE
    /\ rounds' = Append([i \in 1..Len(rounds) |-> [rounds[i] EXCEPT !.latest = FALSE]],
                        LegacyRound(date))
    /\ roundDate' = date
    /\ newScheduleData' = EmptyMap
    /\ UNCHANGED <<loadingProgress, pc, roundSelected, completedWeeks, results,
                   requested>>

\* Previous / Next: never disabled.
legacyNavigateMonth(direction) ==
    /\ withinNav(setMonth(currentDate, direction))
    /\ currentDate' = setMonth(currentDate, direction)
    /\ selectedDate' = NoKey
    /\ selectedAnime' = << >>
    /\ LegacyStartRound(currentDate')
    /\ UNCHANGED <<clock, home, scheduleData>>

\* Today: never disabled.
legacyGoToToday ==
    /\ currentDate' = Today
    /\ selectedDate' = NoKey
    /\ selectedAnime' = << >>
    /\ LegacyStartRound(currentDate')
    /\ UNCHANGED <<clock, home, scheduleData>>

\* A click on a grid cell (the grid is rendered only when not loading).
legacyHandleDateClick(date) ==
    /\ ~loading
    /\ selectedDate' = formatDateKey(date, tz)
    /\ selectedAnime' = syncSelectedAnime(scheduleData, selectedDate',
                                          MapGetOrEmpty(scheduleData, selectedDate'))
    /\ UNCHANGED <<clock, home, currentDate, scheduleData, loading, loadingProgress,
                   roundVars, rounds>>

\* The grid days the user clicks in the model of the earlier component.
LegacyClickDays(curDate, data, tzHours) ==
    LET days == calendarDays(curDate)
    IN  { days[i] : i \in { j \in 1..Len(days) :
                             j = 1 \/ MapHas(data, formatDateKey(days[j], tzHours)) } }

\* A click on the backdrop of the selected-day panel.
legacyDismissPanel ==
    /\ selectedDate # NoKey
    /\ selectedDate' = NoKey
    /\ UNCHANGED <<clock, home, currentDate, selectedAnime, scheduleData, loading,
                   loadingProgress, roundVars, rounds>>

NextLegacy ==
    \/ \E r \in 1..Len(rounds) : LegacyFetchSettles(r)
    \/ \E r \in 1..Len(rounds) : LegacyRoundSettles(r)
    \/ \E direction \in {-1, 1} : legacyNavigateMonth(direction)
    \/ legacyGoToToday
    \/ \E date \in LegacyClickDays(currentDate, scheduleData, tz) : legacyHandleDateClick(date)
    \/ legacyDismissPanel

SpecLegacy == InitLegacy /\ [][NextLegacy]_vars

\* ------------------------------------------------------------------ properties

\* The places <<key, i>> of the entries of an index.
Positions(map) == UNION { { <<key, i>> : i \in 1..Len(map[key]) } : key \in DOMAIN map }

\* The entries a round's successful attempts returned, in order of arrival.
\* An attempt succeeds, as the code sees it, when its body was parsed and holds
\* a `schedule`; it fails when fetch() or res.json() threw.  The HTTP status
\* plays no part (C21).
RECURSIVE FetchedItems(_)
FetchedItems(weekResults) ==
    IF weekResults = << >> THEN << >>
    ELSE (IF Head(weekResults).kind = "json" /\ Head(weekResults).hasSchedule
          THEN Head(weekResults).items ELSE << >>) \o FetchedItems(Tail(weekResults))

\* A round of the current component has committed and no other has started.
RoundCommitted == pc = "idle" /\ Len(results) = WeeksPerRound

\* The step in which a round of the current component settles.
RoundSettles == pc = "fetch" /\ pc' = "idle"

\* C1 (earlier component, SpecLegacy): when every round has settled and the
\* round started last was started by a month change, the index holds the data
\* of that round, whatever the order in which the rounds settled.
C1_StaleRoundDiscarded ==
    (rounds = << >> /\ ~sameMonth(roundDate, Today)) => scheduleData = newScheduleData

\* C2: every date of the grid of the displayed month lies in the Monday-to-Sunday
\* week of one of the six offsets of weeksToFetch.
C2_GridCovered ==
    \A i \in 1..Len(calendarDays(currentDate)) :
        \E w \in 1..WeeksPerRound :
            LET monday == currentMonday(Today) + 7 * weeksToFetch(currentDate, Today, tz)[w]
            IN  calendarDays(currentDate)[i] \in monday..(monday + 6)

\* C3: no schedule_id occurs at two places of the index.
C3_NoDuplicateIds ==
    \A p, q \in Positions(scheduleData) :
        p # q => scheduleData[p[1]][p[2]].schedule_id # scheduleData[q[1]][q[2]].schedule_id

\* C4 (earlier component, SpecLegacy): every entry of the index is filed under
\* the DateKey of the viewer-local calendar day of its airing_at instant.
C4_LocalDayKeys ==
    \A p \in Positions(scheduleData) :
        p[1] = formatLocalDateKey(LocalDay(scheduleData[p[1]][p[2]].airing_at, tz))

\* C5: when a round has committed, loading is false and the index holds, under
\* each local DateKey, exactly the entries that the succeeding attempts
\* returned for that day, in order of arrival; failed attempts add nothing and
\* remove nothing.
C5_PartialFailureTolerated ==
    RoundCommitted =>
        LET fetched == FetchedItems(results)
            keyOf(it) == formatLocalDateKey(LocalDay(it.airing_at, tz))
        IN  /\ ~loading
            /\ DOMAIN scheduleData = { keyOf(fetched[i]) : i \in 1..Len(fetched) }
            /\ \A key \in DOMAIN scheduleData :
                 LET ofDay == SelectSeq(fetched, LAMBDA it : keyOf(it) = key)
                 IN  scheduleData[key] =
                       [i \in 1..Len(ofDay) |-> [ofDay[i] EXCEPT !.airing_date = key]]

\* C5 witness: a committed round in which two attempts failed, four succeeded
\* and entries of the succeeding weeks are in the index.
C5_Witness ==
    /\ RoundCommitted
    /\ Cardinality({ i \in 1..Len(results) : results[i].kind = "error" }) = 2
    /\ \E i \in 1..(Len(results) - 1) :
         results[i].kind = "json" /\ results[i].items # << >> /\ results[i + 1].kind = "error"
    /\ scheduleData # EmptyMap

\* The policy's "previously selected DateKey" is the selection the round was
\* started with: the selectedDate that the running loadMonthSchedule reads
\* (roundSelected).  While a round runs the live selection either equals it or
\* has been cleared by the panel's backdrop.

\* The days of the displayed month (overhang excluded) that have entries.
InMonthWithEntries(map, curDate) ==
    { d \in firstDay(curDate)..lastDay(curDate) :
        MapHas(map, formatLocalDateKey(d)) /\ Len(map[formatLocalDateKey(d)]) > 0 }

Earliest(S) == CHOOSE d \in S : \A e \in S : d <= e

\* The round's selection is null or not a key of the index it commits.
NotKept == roundSelected = NoKey \/ ~MapHas(scheduleData', roundSelected)

\* C6 (rule 1): a round that settles with its selection non-null and a key of
\* the new index leaves the active DateKey as it is; so does one that settles
\* while the live selection is non-null and a key of the new index.
C6_SelectionKept ==
    [][(/\ RoundSettles
        /\ \/ roundSelected # NoKey /\ MapHas(scheduleData', roundSelected)
           \/ selectedDate # NoKey /\ MapHas(scheduleData', selectedDate))
       => selectedDate' = selectedDate]_vars

\* C6 witness: a committed round that kept a selection other than today while
\* today lies in the displayed month.
C6_Witness ==
    /\ RoundCommitted
    /\ roundSelected # NoKey
    /\ selectedDate = roundSelected
    /\ MapHas(scheduleData, roundSelected)
    /\ sameMonth(Today, currentDate)
    /\ selectedDate # formatLocalDateKey(Today)

\* C7 (rule 2): a round that settles with its selection null or not a key of
\* the new index, while today lies in the displayed month, makes today's
\* DateKey the active one.
C7_TodaySelected ==
    [][(RoundSettles /\ NotKept /\ sameMonth(Today, currentDate))
       => selectedDate' = formatLocalDateKey(Today)]_vars

\* C7 witness: rule 2 selected today although today has no entries and an
\* earlier day of the month has some.
C7_Witness ==
    /\ RoundCommitted
    /\ roundSelected = NoKey
    /\ sameMonth(Today, currentDate)
    /\ selectedDate = formatLocalDateKey(Today)
    /\ ~MapHas(scheduleData, formatLocalDateKey(Today))
    /\ \E d \in InMonthWithEntries(scheduleData, currentDate) : d < Today

\* C8 (rule 3): a round that settles with its selection null or not a key of
\* the new index, while today is outside the displayed month and some day of
\* the month has entries, makes the earliest such day the active DateKey and
\* its list the active entry list.
C8_FirstDayWithEntries ==
    [][(/\ RoundSettles
        /\ NotKept
        /\ ~sameMonth(Today, currentDate)
        /\ InMonthWithEntries(scheduleData', currentDate) # {})
       => LET key == formatLocalDateKey(Earliest(InMonthWithEntries(scheduleData', currentDate)))
          IN  selectedDate' = key /\ selectedAnime' = scheduleData'[key]]_vars

\* C8 witness: rule 3 selected a day of the month although an overhang day
\* earlier in the grid has entries too.
C8_Witness ==
    /\ RoundCommitted
    /\ roundSelected = NoKey
    /\ ~sameMonth(Today, currentDate)
    /\ InMonthWithEntries(scheduleData, currentDate) # {}
    /\ selectedDate = formatLocalDateKey(Earliest(InMonthWithEntries(scheduleData, currentDate)))
    /\ selectedAnime = scheduleData[selectedDate]
    /\ \E d \in startDate(currentDate)..(firstDay(currentDate) - 1) :
         MapHas(scheduleData, formatLocalDateKey(d))

\* C9 (rule 4): a round that settles with its selection null or not a key of
\* the new index, while today is outside the displayed month and no day of the
\* month has entries, makes the first day of the month the active DateKey, with
\* an empty entry list.
C9_FirstOfMonth ==
    [][(/\ RoundSettles
        /\ NotKept
        /\ ~sameMonth(Today, currentDate)
        /\ InMonthWithEntries(scheduleData', currentDate) = {})
       => /\ selectedDate' = formatLocalDateKey(firstDay(currentDate))
          /\ selectedAnime' = << >>]_vars

\* C9 witness: rule 4 selected the first of the month while the index holds
\* entries on overhang days only.
C9_Witness ==
    /\ RoundCommitted
    /\ roundSelected = NoKey
    /\ ~sameMonth(Today, currentDate)
    /\ InMonthWithEntries(scheduleData, currentDate) = {}
    /\ scheduleData # EmptyMap
    /\ selectedDate = formatLocalDateKey(firstDay(currentDate))
    /\ selectedAnime = << >>

\* Every attempt of the round that settles has failed.
AllFailed == \A i \in 1..Len(results') : results'[i].kind = "error"

\* C10 as stated: a round whose six attempts all fail ends with an empty index,
\* the first day of the displayed month active, an empty entry list and
\* loading false.
C10_AllFailedFirstOfMonth ==
    [][(RoundSettles /\ AllFailed)
       => /\ scheduleData' = EmptyMap
          /\ selectedDate' = formatLocalDateKey(firstDay(currentDate))
          /\ selectedAnime' = << >>
          /\ ~loading']_vars

\* C10 as amended: a round whose six attempts all fail ends with an empty
\* index, an empty entry list and loading false; the active DateKey is today's
\* when today lies in the displayed month (rule 2) and the first day of the
\* displayed month otherwise (rule 4).
C10_AllFailedDefault ==
    [][(RoundSettles /\ AllFailed)
       => /\ scheduleData' = EmptyMap
          /\ selectedDate' = IF sameMonth(Today, currentDate)
                             THEN formatLocalDateKey(Today)
                             ELSE formatLocalDateKey(firstDay(currentDate))
          /\ selectedAnime' = << >>
          /\ ~loading']_vars

\* C10 witness: after six failures the index is empty and today, which is not
\* the first of the month, is active.
C10_Witness ==
    /\ RoundCommitted
    /\ \A i \in 1..Len(results) : results[i].kind = "error"
    /\ scheduleData = EmptyMap
    /\ ~loading
    /\ sameMonth(Today, currentDate)
    /\ selectedDate = formatLocalDateKey(Today)
    /\ selectedDate # formatLocalDateKey(firstDay(currentDate))
    /\ selectedAnime = << >>

\* The index shown to the renderer changes in this step.
IndexReplaced == scheduleData' # scheduleData

\* The step mounts the component anew: its index is the empty Map of useState.
NewMount == pc' = "fetch" /\ completedWeeks' = 0 /\ scheduleData' = EmptyMap

\* C11: the index changes only in the step in which the sixth attempt of the
\* round settles (five had settled before it), and then it becomes the Map
\* built from all six; once the round is over nothing replaces the index
\* again until a new round is started.  The only other change is the empty
\* index of a component mounted anew.
C11_CommitAfterAllSettled ==
    [][IndexReplaced =>
         \/ /\ RoundSettles
            /\ Len(results) = WeeksPerRound - 1
            /\ Len(results') = WeeksPerRound
            /\ scheduleData' = newScheduleData'
         \/ NewMount]_vars

\* C11 witness: a later round has merged entries of some of its attempts while
\* the renderer still sees the complete index of the round before it.
C11_Witness ==
    /\ pc = "delay"
    /\ loading
    /\ newScheduleData # EmptyMap
    /\ scheduleData # EmptyMap
    /\ scheduleData # newScheduleData

\* C11 for the earlier component (SpecLegacy): the index changes only in a step
\* in which the last of the six attempts of some round settles.
C11_LegacyCommitAfterAllSettled ==
    [][IndexReplaced =>
         \E r \in 1..Len(rounds) :
             /\ rounds[r].settled = WeeksPerRound - 1
             /\ Len(rounds') = Len(rounds) - 1]_vars

\* C12 (SpecFair: every issued fetch settles, with a payload or a failure):
\* whenever loading is true it becomes false again, whatever mix of successes
\* and failures the attempts return.
C12_RoundTerminates == loading ~> ~loading

\* C12 witness: a round that ended with loading false after a mix of failed and
\* successful attempts, the last one failed.
C12_Witness ==
    /\ RoundCommitted
    /\ ~loading
    /\ results[WeeksPerRound].kind = "error"
    /\ \E i \in 1..Len(results) : results[i].kind = "json"

\* A step of the running round: an attempt settles (the next offset is then
\* requested, or the round commits its Map) or the pause ends.
RoundStep == FetchSettles \/ DelayElapses \/ LastFetchSettles

\* C13: a fetch that hangs does not block the round: while an attempt hangs the
\* round still has a step to take, towards requesting the remaining offsets and
\* committing their entries to the index.
C13_HangDoesNotBlock == pc = "hung" => ENABLED RoundStep

\* The month of a date, found in the calendar without the Date constructor.
FirstOfMonth(curDate) ==
    CHOOSE d \in (curDate - 30)..curDate : getDate(d) = 1 /\ sameMonth(d, curDate)
LastOfMonth(curDate) ==
    CHOOSE d \in curDate..(curDate + 30) : sameMonth(d, curDate) /\ ~sameMonth(d + 1, curDate)

\* The latest Sunday on or before the first day of the month, and the earliest
\* Saturday on or after its last day.
gridStart(curDate) ==
    CHOOSE d \in (FirstOfMonth(curDate) - 6)..FirstOfMonth(curDate) : getDay(d) = 0
gridEnd(curDate) ==
    CHOOSE d \in LastOfMonth(curDate)..(LastOfMonth(curDate) + 6) : getDay(d) = 6

\* C14 as stated (SpecPlanner): the grid of the displayed month is a whole
\* number of weeks and has 35 or 42 cells.
C14_GridLength35or42 ==
    /\ Len(calendarDays(currentDate)) % 7 = 0
    /\ Len(calendarDays(currentDate)) \in {35, 42}

\* C14 as amended (SpecPlanner): the grid of the displayed month is a whole
\* number of weeks and has 28, 35 or 42 cells; it has 28 exactly when the month
\* has 28 days and begins on a Sunday.
C14_GridWholeWeeks ==
    /\ Len(calendarDays(currentDate)) % 7 = 0
    /\ Len(calendarDays(currentDate)) \in {28, 35, 42}
    /\ Len(calendarDays(currentDate)) = 28 <=>
         /\ getDay(FirstOfMonth(currentDate)) = 0
         /\ LastOfMonth(currentDate) - FirstOfMonth(currentDate) + 1 = 28

\* C14 witness: February 2026 is displayed (28 days, the 1st a Sunday) and the
\* grid has four rows.
C14_Witness ==
    /\ formatLocalDateKey(FirstOfMonth(currentDate)) = 20260201
    /\ Len(calendarDays(currentDate)) = 28

\* C15 (SpecPlanner): the grid of the displayed month is the sequence of the
\* consecutive dates from gridStart to gridEnd, each once and in ascending
\* order, and every day of the month is one of its cells.
C15_GridContiguous ==
    LET days == calendarDays(currentDate)
    IN  /\ days = [i \in 1..(gridEnd(currentDate) - gridStart(currentDate) + 1) |->
                      gridStart(currentDate) + i - 1]
        /\ \A i \in 1..(Len(days) - 1) : days[i + 1] = days[i] + 1
        /\ \A d \in FirstOfMonth(currentDate)..LastOfMonth(currentDate) :
             \E i \in 1..Len(days) : days[i] = d

\* C15 witness: a six-row month whose grid begins in the month before it and
\* ends in the month after it.
C15_Witness ==
    LET days == calendarDays(currentDate)
    IN  /\ Len(days) = 42
        /\ ~sameMonth(Today, currentDate)
        /\ ~sameMonth(days[1], currentDate)
        /\ ~sameMonth(days[42], currentDate)
        /\ sameMonth(days[7], currentDate)
        /\ sameMonth(days[36], currentDate)

\* The Monday of the Monday-to-Sunday week that holds a date.
MondayOfWeek(d) == CHOOSE m \in (d - 6)..d : getDay(m) = 1

\* C16 (SpecPlanner): weeksToFetch is the six consecutive integers from
\* baseOffset, the whole number of weeks from the Monday of today's week to the
\* Monday of the week that holds gridStart; baseOffset is 0 exactly when
\* gridStart lies in today's week.
C16_SixConsecutiveOffsets ==
    LET weeks == weeksToFetch(currentDate, Today, tz)
        days  == MondayOfWeek(gridStart(currentDate)) - MondayOfWeek(Today)
    IN  /\ Len(weeks) = 6
        /\ days % 7 = 0
        /\ \A i \in 1..Len(weeks) : weeks[i] * 7 = days + (i - 1) * 7
        /\ weeks[1] = 0 <=>
             gridStart(currentDate) \in MondayOfWeek(Today)..(MondayOfWeek(Today) + 6)

\* C16 witness: today is a Sunday, the displayed month is not today's, and its
\* grid begins on that same Sunday: the first offset is 0.
C16_Witness ==
    /\ getDay(Today) = 0
    /\ ~sameMonth(Today, currentDate)
    /\ calendarDays(currentDate)[1] = Today
    /\ weeksToFetch(currentDate, Today, tz) = <<0, 1, 2, 3, 4, 5>>

\* The entry at a place of the index was returned by the attempt with result w.
ReturnedBy(entry, w) ==
    /\ w.kind = "json"
    /\ w.hasSchedule
    /\ \E j \in 1..Len(w.items) :
         /\ w.items[j].schedule_id = entry.schedule_id
         /\ w.items[j].airing_at = entry.airing_at

\* C17: when a round has committed, every entry of the index was returned by a
\* successful attempt of that round; nothing of an index committed before it
\* is left.
C17_OnlyOwnEntries ==
    RoundCommitted =>
        \A p \in Positions(scheduleData) :
            \E i \in 1..Len(results) : ReturnedBy(scheduleData[p[1]][p[2]], results[i])

\* C17 witness: a round committed for a month the user navigated to; its index
\* holds the entry of 12 April and none of the entries of 3 March that the weeks
\* of the month before it serve.
C17_Witness ==
    /\ RoundCommitted
    /\ ~sameMonth(Today, currentDate)
    /\ \E p \in Positions(scheduleData) : scheduleData[p[1]][p[2]].schedule_id = 4
    /\ \A p \in Positions(scheduleData) : scheduleData[p[1]][p[2]].schedule_id \notin {1, 5}

\* C18: when a round has committed, every entry of every payload that was
\* fetched is in the index under the DateKey of its local airing day, and the
\* index holds as many entries as the payloads did.
C18_NoEntryLost ==
    RoundCommitted =>
        /\ \A i \in 1..Len(results) :
             (results[i].kind = "json" /\ results[i].hasSchedule) =>
                 \A j \in 1..Len(results[i].items) :
                     LET item == results[i].items[j]
                         key  == formatLocalDateKey(LocalDay(item.airing_at, tz))
                     IN  /\ MapHas(scheduleData, key)
                         /\ \E k \in 1..Len(scheduleData[key]) :
                              /\ scheduleData[key][k].schedule_id = item.schedule_id
                              /\ scheduleData[key][k].airing_at = item.airing_at
                              /\ scheduleData[key][k].airing_date = key
        /\ Cardinality(Positions(scheduleData)) = Len(FetchedItems(results))

\* C18 witness: a committed round in which two different weeks returned
\* entries of one local day, and all of them are in the index.
C18_Witness ==
    /\ RoundCommitted
    /\ \E i, k \in 1..Len(results) :
         /\ i < k
         /\ results[i].items # << >>
         /\ results[k].items # << >>
         /\ localDateKey(results[i].items[1], tz) = localDateKey(results[k].items[1], tz)
    /\ \E key \in DOMAIN scheduleData : Len(scheduleData[key]) >= 4

\* A list is in ascending airing_at order.
Ascending(list) == \A i \in 1..(Len(list) - 1) : list[i].airing_at <= list[i + 1].airing_at

\* C19: whenever a day is active, the cards of its panel are in ascending
\* airing_at order and are the entries of the active list, each as often as
\* the list holds it.
C19_PanelAscending ==
    selectedDate # NoKey =>
        LET cards == panelEntries(selectedAnime)
        IN  /\ Ascending(cards)
            /\ Len(cards) = Len(selectedAnime)
            /\ \A i \in 1..Len(selectedAnime) :
                 Cardinality({ j \in 1..Len(cards) : cards[j] = selectedAnime[i] })
                   = Cardinality({ j \in 1..Len(selectedAnime) : selectedAnime[j] = selectedAnime[i] })

\* C19 witness: the panel of a loaded month shows a day whose entries arrived
\* out of airing order (a later week returned an earlier entry again).
C19_Witness ==
    /\ selectedDate # NoKey
    /\ ~loading
    /\ ~Ascending(selectedAnime)
    /\ selectedAnime = MapGetOrEmpty(scheduleData, selectedDate)

\* The step starts a round: no attempt of it has completed.
RoundStarts == pc' = "fetch" /\ completedWeeks' = 0

\* C20: loadingProgress is always within 0..100 and is 100 whenever a round has
\* ended with loading false; within a round it never decreases, and it grows
\* with every attempt that completes.
C20_ProgressMonotone ==
    /\ [](/\ loadingProgress \in 0..100
          /\ (pc = "idle" /\ ~loading) => loadingProgress = 100)
    /\ [][/\ ~RoundStarts => loadingProgress' >= loadingProgress
          /\ completedWeeks' = completedWeeks + 1 => loadingProgress' > loadingProgress]_vars

\* C20 witness: the fourth attempt of a round has completed, after a failure,
\* and the progress stands at 67.
C20_Witness ==
    /\ pc = "delay"
    /\ completedWeeks = 4
    /\ loadingProgress = 67
    /\ \E i \in 1..Len(results) : results[i].kind = "error"

\* The entries that the attempts answered with a 2xx status returned.
RECURSIVE OkItems(_)
OkItems(weekResults) ==
    IF weekResults = << >> THEN << >>
    ELSE (IF Head(weekResults).kind = "json" /\ Head(weekResults).ok
             /\ Head(weekResults).hasSchedule
          THEN Head(weekResults).items ELSE << >>) \o OkItems(Tail(weekResults))

\* C21: when a round has committed, the index holds as many entries as the
\* attempts that were answered with a 2xx status returned: an attempt that
\* ended with a network error or a non-2xx status has added none, whatever its
\* body held.
C21_FailedAttemptAddsNothing ==
    RoundCommitted => Cardinality(Positions(scheduleData)) = Len(OkItems(results))

\* The calendar day that a DateKey names.
DayOfKey(key) == DaysFromCivil(key \div 10000, (key \div 100) % 100, key % 100)

\* C22 (earlier component, SpecLegacy): the DateKey computed for a cell of the
\* grid, which is also the key a click on that cell selects, names the cell's own
\* local calendar day, for every viewer UTC offset.
C22_CellKeyIsOwnDay ==
    \A i \in 1..Len(calendarDays(currentDate)) :
        DayOfKey(formatDateKey(calendarDays(currentDate)[i], tz)) = calendarDays(currentDate)[i]

\* The for loop of loadMonthSchedule as a function of what the six attempts
\* produced: the Map it builds from a given Map.
RECURSIVE Aggregate(_, _, _)
Aggregate(weekResults, map, tzHours) ==
    IF weekResults = << >> THEN map
    ELSE Aggregate(Tail(weekResults), processWeek(map, Head(weekResults), tzHours), tzHours)

InFlight == Len(requested) - Len(results)

\* C24: in the sequential round at most one weekly fetch is in flight; a
\* request is issued only when every earlier attempt of the round has settled;
\* the offsets requested so far are the first ones of weeksToFetch, in ascending
\* order and each once, whether or not attempts failed; and a committed round
\* has requested each of the six offsets exactly once.
C24_OneFetchAtATime ==
    /\ InFlight \in {0, 1}
    /\ InFlight = 1 <=> pc \in {"fetch", "hung"}
    /\ Len(requested) <= WeeksPerRound
    /\ \A i, j \in 1..Len(requested) : i < j => requested[i] < requested[j]
    /\ \A i \in 1..Len(requested) :
         requested[i] = weeksToFetch(roundDate, Today, tz)[i]
    /\ RoundCommitted => Len(requested) = WeeksPerRound

\* C24 witness: the fourth offset has been requested after the third attempt
\* failed, and it is the only fetch in flight.
C24_Witness ==
    /\ pc = "fetch"
    /\ Len(requested) = 4
    /\ Len(results) = 3
    /\ results[3].kind = "error"
    /\ requested[4] = requested[3] + 1

\* C25: a Next click makes the displayed month the calendar month after the one
\* displayed, and a Prev click the calendar month before it, whatever
\* day-of-month the displayed date carries.
C25_NavigateMovesOneMonth ==
    [][\A direction \in {-1, 1} :
         navigateMonth(direction) =>
             monthIndex(currentDate') = monthIndex(currentDate) + direction]_vars

\* C26: when a round settles (loading becomes false) the active DateKey is not
\* null, whatever the user did while the round was loading.
C26_SelectionAfterSettle ==
    [][RoundSettles => selectedDate' # NoKey]_vars

\* C27: whenever no round is loading and the active DateKey is not null, the
\* active entry list is the index's list for that key, the empty list if the
\* index has no such key.
C27_ActiveListMatchesIndex ==
    (~loading /\ selectedDate # NoKey) =>
        selectedAnime = MapGetOrEmpty(scheduleData, selectedDate)

\* C27 witness: after a month navigation and the completion of its round, a
\* day with entries is active and its entries are listed.
C27_Witness ==
    /\ ~loading
    /\ ~sameMonth(currentDate, Today)
    /\ selectedDate # NoKey
    /\ MapHas(scheduleData, selectedDate)
    /\ selectedAnime # << >>

\* C28 (earlier component, SpecLegacy): loading is true whenever the round that
\* was started for the month now displayed has not yet committed.
C28_LoadingWhileRoundRuns ==
    (\E r \in 1..Len(rounds) : rounds[r].latest /\ sameMonth(rounds[r].date, currentDate))
        => loading

\* The state of a round that Today started and that no user action has
\* touched: today's month is displayed, today's DateKey was captured by the
\* round and is still the live selection.
TodayRound ==
    /\ currentDate = Today
    /\ roundDate = Today
    /\ roundSelected = formatLocalDateKey(Today)
    /\ selectedDate = roundSelected

\* C29: goToToday starts a round in the state TodayRound, and when a round
\* settles in that state (no user action since it started) the displayed month
\* is the month of the real-world today and the active DateKey is today's,
\* whether or not the new index has entries for today.
C29_TodayAfterGoToToday ==
    [][/\ goToToday => (TodayRound /\ loading /\ completedWeeks = 0)'
       /\ (RoundSettles /\ TodayRound) =>
              (sameMonth(currentDate, Today) /\ selectedDate = formatLocalDateKey(Today))'
      ]_vars

\* C29 witness: a round started by Today (today's key captured while the index
\* of the month left behind is still in place) is about to settle, and the
\* index it has built has entries but none for today.
C29_Witness ==
    /\ TodayRound
    /\ pc = "fetch"
    /\ completedWeeks + 1 = WeeksPerRound
    /\ scheduleData # EmptyMap
    /\ newScheduleData # EmptyMap
    /\ ~MapHas(newScheduleData, formatLocalDateKey(Today))

\* ------------------------------------------------------------- the Home page

\* Queries the user sends in one session of the model.
MaxQueries == 2

\* Seasonal-list loads that may be in flight together in the model.
MaxLoads == 2

\* The state of the schedule component, which the Home page's chat and browse
\* tabs do not touch.
schedule == <<clock, currentDate, selectedDate, selectedAnime, scheduleData, loading,
              loadingProgress, roundVars, rounds>>

\* The queries sent so far: each adds one user message to the transcript.
sent == Cardinality({ i \in 1..Len(messages) : messages[i].role = "user" })

\* loadAnimeData up to its first await: setLoading(true), fetch /anime/seasonal.
loadAnimeData ==
    /\ seasonalLoads < MaxLoads
    /\ pageLoading' = TRUE
    /\ seasonalLoads' = seasonalLoads + 1

\* Home as mounted: the browse tab is shown, the [tab] effect has called
\* loadAnimeData and the health check is under way; the schedule component is
\* not mounted.
InitHome ==
    /\ now \in Nows
    /\ tz \in TimeZones
    /\ currentDate = LocalDay(now, tz)
    /\ selectedDate = NoKey
    /\ selectedAnime = << >>
    /\ scheduleData = EmptyMap
    /\ loading = FALSE
    /\ loadingProgress = 0
    /\ pc = "idle"
    /\ roundDate = currentDate
    /\ roundSelected = NoKey
    /\ newScheduleData = EmptyMap
    /\ completedWeeks = 0
    /\ results = << >>
    /\ requested = << >>
    /\ rounds = << >>
    /\ tab = "browse"
    /\ messages = << >>
    /\ pageLoading = TRUE
    /\ apiStatus = "checking"
    /\ seasonalLoads = 1
    /\ queries = {}

\* fetch(`${API_URL}/health`) settles.
healthSettles ==
    /\ apiStatus = "checking"
    /\ apiStatus' \in {"online", "offline"}
    /\ UNCHANGED <<schedule, tab, messages, pageLoading, seasonalLoads, queries>>

\* A click on a navigation pill; the [tab] effect loads the seasonal list when
\* the browse tab is entered.
setTab(t) ==
    /\ t # tab
    /\ tab' = t
    /\ IF t = "browse" THEN loadAnimeData ELSE UNCHANGED <<pageLoading, seasonalLoads>>
    /\ UNCHANGED <<schedule, messages, apiStatus, queries>>

\* The Refresh button of the browse tab (disabled while loading).
refresh ==
    /\ tab = "browse"
    /\ ~pageLoading
    /\ loadAnimeData
    /\ UNCHANGED <<schedule, tab, messages, apiStatus, queries>>

\* A seasonal load settles, with a list or with an error: finally setLoading(false).
seasonalSettles ==
    /\ seasonalLoads > 0
    /\ seasonalLoads' = seasonalLoads - 1
    /\ pageLoading' = FALSE
    /\ UNCHANGED <<schedule, tab, messages, apiStatus, queries>>

\* sendQuery up to its await, from the chat form or a suggestion (both disabled
\* while loading or offline): the user message is appended, setLoading(true),
\* POST /query.
sendQuery ==
    /\ tab = "chat"
    /\ apiStatus # "offline"
    /\ ~pageLoading
    /\ sent < MaxQueries
    /\ messages' = Append(messages, [role |-> "user", query |-> sent + 1, content |-> "query"])
    /\ pageLoading' = TRUE
    /\ queries' = queries \cup {sent + 1}
    /\ UNCHANGED <<schedule, tab, apiStatus, seasonalLoads>>

\* A /query request settles: the reply, or the failure notice, is appended and
\* finally setLoading(false).
querySettles(q) ==
    /\ q \in queries
    /\ \E content \in {"response", "failed"} :
         messages' = Append(messages, [role |-> "assistant", query |-> q, content |-> content])
    /\ pageLoading' = FALSE
    /\ queries' = queries \ {q}
    /\ UNCHANGED <<schedule, tab, apiStatus, seasonalLoads>>

NextHome ==
    \/ healthSettles
    \/ \E t \in {"browse", "schedule", "chat"} : setTab(t)
    \/ refresh
    \/ seasonalSettles
    \/ sendQuery
    \/ \E q \in queries : querySettles(q)

SpecHome == InitHome /\ [][NextHome]_vars

\* C30: on the Home page at most one /query request is in flight, and the
\* assistant messages of the transcript answer the queries in the order in
\* which the queries were sent.
C30_OneQueryInFlight ==
    /\ Cardinality(queries) <= 1
    /\ \A i, j \in 1..Len(messages) :
         (i < j /\ messages[i].role = "assistant" /\ messages[j].role = "assistant")
             => messages[i].query < messages[j].query

====
